---- MODULE Spec2Model ----
(***************************************************************************)
(* A model of backend/src/services/language_service.py: the translation    *)
(* cache of TranslationService (content-hash keyed rows with a time to     *)
(* live and a usage counter, in front of the mock translation backend) and *)
(* the language preferences and UI translations of LanguageService.        *)
(*                                                                         *)
(* Conventions.  A Python str is a TLA+ string and + / f-string            *)
(* concatenation is \o.  Optional[X] is a sequence of length at most one:  *)
(* None is << >> and a value x is << x >>.  A datetime is a number of      *)
(* hours, a timedelta(hours = h) is h.  A float score is a number of       *)
(* hundredths (0.85 is 85).  A table of the database is the sequence of    *)
(* its rows in insertion order, and a row's primary key is its index.      *)
(***************************************************************************)
EXTENDS Integers, Sequences, FiniteSets, Bags, TLC

VARIABLES
  cache,   \* table AITranslationCache
  prefs,   \* table UserLanguagePreference
  now,     \* what datetime.utcnow() returns
  last,    \* the most recent completed call: its arguments and what it returned
  thr,     \* the requests in flight, one per thread: where each stands, its locals
  hits,    \* bag of the row ids that concurrent get_cached_translation calls returned
  store,   \* table Translation
  sessions \* table TranslationSession

vars == <<cache, prefs, now, last, thr, hits, store, sessions>>

(***************************************************************************)
(* Bounds of the model.                                                    *)
(***************************************************************************)
MaxRows == 2      \* rows the cache table may hold
MaxUsage == 3     \* a hit is taken only while usage_count is below this
MaxPrefs == 3     \* rows the preference table may hold
NThreads == 2     \* concurrent requests
MaxCalls == 3     \* get_cached_translation calls the concurrent requests make
MaxSessions == 2  \* rows the session table may hold
MaxActivity == 2  \* page views and AI translations counted in one session, together

None == << >>
Some(x) == << x >>

\* Python truthiness of an Optional[str]: None and "" are falsy.
Truthy(x) == x # None /\ x # Some("")

(***************************************************************************)
(* Inputs.                                                                 *)
(***************************************************************************)
Contents == {"Analyze", "Unseen phrase"}
SourceLangs == {"en"}
TargetLangs == {"es"}
Contexts == {"general"}
GivenTranslations == {"Analice"}   \* what a direct caller of cache_translation stores
GivenScores == {90}              \* confidence_score a direct caller passes
GivenServices == {"openai"}      \* TranslationServiceEnum value a direct caller passes
GivenTTLs == {0, 1}                \* cache_duration_hours a direct caller passes

\* seed_languages: the codes of the Language table, all of them enabled.
SeededLanguages == {"en", "es", "fr", "hi", "zh"}

(***************************************************************************)
(* TranslationService._generate_content_hash.  SHA-256 is taken to be      *)
(* injective: the digest of a string is the string under a tag.            *)
(***************************************************************************)
sha256(s) == "sha256(" \o s \o ")"

combined(content, source_lang, target_lang) ==
  content \o "|" \o source_lang \o "|" \o target_lang

hash_ignoring_source(content, source_lang, target_lang) ==
  sha256(content \o "|" \o target_lang)

_generate_content_hash(content, source_lang, target_lang) ==
  sha256(combined(content, source_lang, target_lang))

(***************************************************************************)
(* TranslationService._mock_translate.  The table's Spanish and French     *)
(* values are written without their accents, and the Hindi and Chinese     *)
(* values, which the module's character set cannot hold, as the phrase     *)
(* under the language's tag; they are opaque data.                         *)
(***************************************************************************)
Phrases ==
  {"Early blight disease detected", "Late blight disease detected",
   "Healthy potato leaf", "Upload Image", "Analyze", "Results",
   "Disease Analysis", "Treatment Recommendations"}

translations ==
  [es |-> [p \in Phrases |->
       CASE p = "Early blight disease detected" -> "Enfermedad de tizon temprano detectada"
         [] p = "Late blight disease detected" -> "Enfermedad de tizon tardio detectada"
         [] p = "Healthy potato leaf" -> "Hoja de papa saludable"
         [] p = "Upload Image" -> "Subir Imagen"
         [] p = "Analyze" -> "Analizar"
         [] p = "Results" -> "Resultados"
         [] p = "Disease Analysis" -> "Analisis de Enfermedad"
         [] p = "Treatment Recommendations" -> "Recomendaciones de Tratamiento"],
   fr |-> [p \in Phrases |->
       CASE p = "Early blight disease detected" -> "Maladie de la brulure precoce detectee"
         [] p = "Late blight disease detected" -> "Maladie de la brulure tardive detectee"
         [] p = "Healthy potato leaf" -> "Feuille de pomme de terre saine"
         [] p = "Upload Image" -> "Telecharger l'image"
         [] p = "Analyze" -> "Analyser"
         [] p = "Results" -> "Resultats"
         [] p = "Disease Analysis" -> "Analyse des maladies"
         [] p = "Treatment Recommendations" -> "Recommandations de traitement"],
   hi |-> [p \in Phrases |-> "hi<" \o p \o ">"],
   zh |-> [p \in Phrases |-> "zh<" \o p \o ">"]]

\* str.upper() on the language codes the model draws.
upper(code) ==
  CASE code = "en" -> "EN"
    [] code = "es" -> "ES"
    [] code = "fr" -> "FR"
    [] code = "hi" -> "HI"
    [] code = "zh" -> "ZH"
    [] code = "xx" -> "XX"
    [] code = "a" -> "A"
    [] code = "a|a" -> "A|A"
    [] OTHER -> code

\* The None object passed where a language code is expected, written as an
\* f-string renders it; the model draws no str of this spelling.
NoneCode == "None"

mock_never_raises(content, source_lang, target_lang, context) == None

\* The exception _mock_translate ends in, None when it returns: None has no
\* upper(), so the fallback line raises AttributeError for a target that is None.
_mock_translate_raises(content, source_lang, target_lang, context) ==
  IF target_lang \in DOMAIN translations /\ content \in DOMAIN translations[target_lang]
  THEN None
  ELSE IF target_lang = NoneCode THEN Some("AttributeError") ELSE None

mock_without_upper(content, source_lang, target_lang, context) ==
  IF target_lang \in DOMAIN translations /\ content \in DOMAIN translations[target_lang]
  THEN translations[target_lang][content]
  ELSE "[" \o target_lang \o "] " \o content

_mock_translate(content, source_lang, target_lang, context) ==
  IF target_lang \in DOMAIN translations /\ content \in DOMAIN translations[target_lang]
  THEN translations[target_lang][content]
  ELSE "[" \o upper(target_lang) \o "] " \o content

(***************************************************************************)
(* The cache table.                                                        *)
(***************************************************************************)
DefaultCacheHours == 168   \* cache_duration_hours: int = 168
MockConfidence == 85       \* confidence_score = 0.85

\* The instants at which the model reads the clock: the start, one hour on, and
\* the hour at which an entry stored at the start with the default duration ends.
ClockValues == {0, 1, DefaultCacheHours}

\* AITranslationCache.to_dict(): the entry as the caller sees it, marked as
\* served from the cache.
to_dict(row) ==
  [originalContent |-> row.original_content,
   translatedContent |-> row.translated_content,
   sourceLanguage |-> row.source_language,
   targetLanguage |-> row.target_language,
   translationService |-> row.translation_service,
   confidenceScore |-> row.confidence_score,
   expiresAt |-> row.expires_at,
   usageCount |-> row.usage_count,
   cached |-> TRUE]

\* The filter of get_cached_translation's query: the ids of the rows it selects.
query_without_expiry(rows, content_hash, source_language, target_language, at) ==
  {i \in DOMAIN rows :
     /\ rows[i].content_hash = content_hash
     /\ rows[i].source_language = source_language
     /\ rows[i].target_language = target_language}

\* A filter on the hash and the expiry alone.
query_by_hash_only(rows, content_hash, source_language, target_language, at) ==
  {i \in DOMAIN rows :
     /\ rows[i].content_hash = content_hash
     /\ rows[i].expires_at > at}

CacheQuery(rows, content_hash, source_language, target_language, at) ==
  {i \in DOMAIN rows :
     /\ rows[i].content_hash = content_hash
     /\ rows[i].source_language = source_language
     /\ rows[i].target_language = target_language
     /\ rows[i].expires_at > at}

\* Query.first() on a query with no ORDER BY: any one of the selected rows, the
\* database's choice; 0 stands for None (no row selected).
first(selected) == IF selected = {} THEN {0} ELSE selected

usage_unchanged(rows, i) == rows

\* A hit that also pushes the row's end back (a sliding expiry).
hit_extends_expiry(rows, i) ==
  [rows EXCEPT ![i].usage_count = @ + 1, ![i].expires_at = @ + 1]

\* cached.usage_count += 1; self.db.commit()
IncrementUsage(rows, i) == [rows EXCEPT ![i].usage_count = @ + 1]

row_with_usage_zero(content, translated_content, source_language, target_language, service, confidence_score, cache_duration_hours, at) ==
  [content_hash |-> _generate_content_hash(content, source_language, target_language),
   source_language |-> source_language,
   target_language |-> target_language,
   original_content |-> content,
   translated_content |-> translated_content,
   translation_service |-> service,
   confidence_score |-> confidence_score,
   expires_at |-> at + cache_duration_hours,
   usage_count |-> 0]

\* A row that holds the language pair the wrong way round.
row_with_swapped_languages(content, translated_content, source_language, target_language, service, confidence_score, cache_duration_hours, at) ==
  [content_hash |-> _generate_content_hash(content, source_language, target_language),
   source_language |-> target_language,
   target_language |-> source_language,
   original_content |-> content,
   translated_content |-> translated_content,
   translation_service |-> service,
   confidence_score |-> confidence_score,
   expires_at |-> at + cache_duration_hours,
   usage_count |-> 1]

\* The row cache_translation builds.
NewCacheRow(content, translated_content, source_language, target_language, service, confidence_score, cache_duration_hours, at) ==
  [content_hash |-> _generate_content_hash(content, source_language, target_language),
   source_language |-> source_language,
   target_language |-> target_language,
   original_content |-> content,
   translated_content |-> translated_content,
   translation_service |-> service,
   confidence_score |-> confidence_score,
   expires_at |-> at + cache_duration_hours,
   usage_count |-> 1]

\* The dict translate_content builds when use_cache is false.
NoCacheResult(translated_content, confidence_score) ==
  [translatedContent |-> translated_content,
   confidenceScore |-> confidence_score,
   cached |-> FALSE,
   translationService |-> "openai"]

(***************************************************************************)
(* What a call does to the table and what it returns, as a set of          *)
(* outcomes [rows, result, row, raised, backend, queries]: rows is the      *)
(* table after the call, result what it returns, row the id of the row the *)
(* returned entry is (0 when it is none), raised the exception the call    *)
(* ends in (None when it returns), backend and queries the number of calls *)
(* of _mock_translate and of SELECTs it made.                              *)
(***************************************************************************)
get_cached_outcomes(rows, content, source_language, target_language, at) ==
  LET content_hash == _generate_content_hash(content, source_language, target_language)
      selected == CacheQuery(rows, content_hash, source_language, target_language, at)
  IN {[rows |-> IF i = 0 THEN rows ELSE IncrementUsage(rows, i),
       result |-> IF i = 0 THEN None ELSE Some(to_dict(IncrementUsage(rows, i)[i])),
       row |-> i,
       raised |-> None,
       backend |-> 0,
       queries |-> 1] :
        i \in {j \in first(selected) : j = 0 \/ rows[j].usage_count < MaxUsage}}

\* An upsert in place of the insert: a row of the key already present is replaced.
upsert_outcome(rows, content, translated_content, source_language, target_language, service, confidence_score, cache_duration_hours, at) ==
  LET cached == NewCacheRow(content, translated_content, source_language,
                            target_language, service, confidence_score,
                            cache_duration_hours, at)
      same == {i \in DOMAIN rows : rows[i].content_hash = cached.content_hash}
  IN [rows |-> IF same = {} THEN Append(rows, cached)
               ELSE [i \in DOMAIN rows |-> IF i \in same THEN cached ELSE rows[i]],
      result |-> Some(to_dict(cached)),
      row |-> IF same = {} THEN Len(rows) + 1 ELSE CHOOSE i \in same : TRUE,
      raised |-> None,
      backend |-> 0,
      queries |-> 0]

cache_translation_outcome(rows, content, translated_content, source_language, target_language, service, confidence_score, cache_duration_hours, at) ==
  LET cached == NewCacheRow(content, translated_content, source_language,
                            target_language, service, confidence_score,
                            cache_duration_hours, at)
  IN [rows |-> Append(rows, cached),
      result |-> Some(to_dict(cached)),
      row |-> Len(rows) + 1,
      raised |-> None,
      backend |-> 0,
      queries |-> 0]

\* if use_cache: (before the backend is called) and if use_cache: (after it).
ChecksCache(use_cache) == use_cache

stores_always(use_cache) == TRUE

stores_never(use_cache) == FALSE

StoresResult(use_cache) == use_cache

translate_outcomes(rows, content, target_language, source_language, context, use_cache, at) ==
  LET looked == IF ChecksCache(use_cache)
                THEN get_cached_outcomes(rows, content, source_language, target_language, at)
                ELSE {[rows |-> rows, result |-> None, row |-> 0, raised |-> None,
                       backend |-> 0, queries |-> 0]}
      translated_content == _mock_translate(content, source_language, target_language, context)
      confidence_score == MockConfidence
      stored == cache_translation_outcome(rows, content, translated_content, source_language,
                                          target_language, "openai", confidence_score,
                                          DefaultCacheHours, at)
      failure == _mock_translate_raises(content, source_language, target_language, context)
  IN {IF o.result # None
      THEN o
      ELSE IF failure # None
      THEN [rows |-> o.rows, result |-> None, row |-> 0, raised |-> failure,
            backend |-> 1, queries |-> o.queries]
      ELSE IF StoresResult(use_cache)
           THEN [stored EXCEPT !.backend = 1, !.queries = o.queries]
           ELSE [rows |-> rows,
                 result |-> Some(NoCacheResult(translated_content, confidence_score)),
                 row |-> 0,
                 raised |-> None,
                 backend |-> 1,
                 queries |-> o.queries] :
        o \in {x \in looked :
                 \/ x.result # None
                 \/ failure # None
                 \/ ~StoresResult(use_cache)
                 \/ Len(rows) < MaxRows}}

(***************************************************************************)
(* The calls, one at a time.                                               *)
(***************************************************************************)
Call(op, args, o) ==
  [op |-> op, args |-> args,
   result |-> o.result, row |-> o.row, raised |-> o.raised, backend |-> o.backend, queries |-> o.queries]

KeyArgs(content, source_language, target_language, use_cache) ==
  [content |-> content, source_language |-> source_language,
   target_language |-> target_language, use_cache |-> use_cache]

\* The rows of the table that a lookup of the call's key selects at time at.
LiveFor(rows, args, at) ==
  CacheQuery(rows,
             _generate_content_hash(args.content, args.source_language, args.target_language),
             args.source_language, args.target_language, at)

SameKey(a, b) ==
  /\ a.content = b.content
  /\ a.source_language = b.source_language
  /\ a.target_language = b.target_language

Tick ==
  /\ \E t \in ClockValues : t > now /\ now' = t
  /\ UNCHANGED <<cache, prefs, last, thr, hits, store, sessions>>

get_cached_translation(content, source_language, target_language) ==
  /\ \E o \in get_cached_outcomes(cache, content, source_language, target_language, now) :
       /\ cache' = o.rows
       /\ last' = Call("get_cached_translation",
                       KeyArgs(content, source_language, target_language, TRUE), o)
  /\ UNCHANGED <<prefs, now, thr, hits, store, sessions>>

cache_translation(content, translated_content, source_language, target_language, service, confidence_score, cache_duration_hours) ==
  /\ Len(cache) < MaxRows
  /\ LET o == cache_translation_outcome(cache, content, translated_content, source_language,
                                        target_language, service, confidence_score,
                                        cache_duration_hours, now)
     IN /\ cache' = o.rows
        /\ last' = Call("cache_translation",
                        [content |-> content, translated_content |-> translated_content,
                         source_language |-> source_language,
                         target_language |-> target_language,
                         cache_duration_hours |-> cache_duration_hours], o)
  /\ UNCHANGED <<prefs, now, thr, hits, store, sessions>>

translate_content(content, target_language, source_language, context, use_cache) ==
  /\ \E o \in translate_outcomes(cache, content, target_language, source_language,
                                 context, use_cache, now) :
       /\ cache' = o.rows
       /\ last' = Call("translate_content",
                       KeyArgs(content, source_language, target_language, use_cache), o)
  /\ UNCHANGED <<prefs, now, thr, hits, store, sessions>>

NoCall ==
  [op |-> "none", args |-> KeyArgs("", "", "", FALSE),
   result |-> None, row |-> 0, raised |-> None, backend |-> 0, queries |-> 0]

\* A thread outside any call; inside a call it holds the call's arguments and,
\* once the query of get_cached_translation has loaded a row, the row's id and
\* the usage_count read.
Idle == [pc |-> "idle", id |-> 0, usage_count |-> 0, args |-> KeyArgs("", "", "", FALSE)]

Init ==
  /\ cache = << >>
  /\ prefs = << >>
  /\ now = 0
  /\ last = NoCall
  /\ thr = [t \in 1..NThreads |-> Idle]
  /\ hits = EmptyBag
  /\ store = << >>
  /\ sessions = << >>

Next ==
  \/ Tick
  \/ \E c \in Contents, s \in SourceLangs, g \in TargetLangs :
       get_cached_translation(c, s, g)
  \/ \E c \in Contents, t \in GivenTranslations, s \in SourceLangs, g \in TargetLangs,
        v \in GivenServices, f \in GivenScores, h \in GivenTTLs :
       cache_translation(c, t, s, g, v, f, h)
  \/ \E c \in Contents, g \in TargetLangs, s \in SourceLangs, x \in Contexts,
        u \in BOOLEAN :
       translate_content(c, g, s, x, u)

Spec == Init /\ [][Next]_vars

(***************************************************************************)
(* Properties of the cache, checked under Spec.  A step of a behaviour is  *)
(* a call when the clock stands still and something changes; last' then    *)
(* describes the call and last the call before it.                         *)
(***************************************************************************)
CallStep == now' = now /\ vars' # vars

Returned(call) == call.result[1]

\* C2 (round trip).  A get_cached_translation(c, s, g) that follows a
\* cache_translation(c, t, s, g, ...) with a positive duration, before the new
\* entry ends and with no other live entry for (c, s, g), returns an entry whose
\* translatedContent is t and whose usageCount is 2.
RoundTrip ==
  [][(/\ CallStep
      /\ last.op = "cache_translation"
      /\ last.args.cache_duration_hours > 0
      /\ last'.op = "get_cached_translation"
      /\ SameKey(last'.args, last.args)
      /\ LiveFor(cache, last.args, now) = {Len(cache)})
     => (/\ last'.result # None
         /\ last'.row = Len(cache)
         /\ cache'[last'.row].translated_content = last.args.translated_content
         /\ cache'[last'.row].usage_count = 2
         /\ Returned(last').translatedContent = last.args.translated_content
         /\ Returned(last').usageCount = 2)]_vars

\* A lookup has just returned the entry stored right before it, with count 2.
RoundTripWitness ==
  /\ last.op = "get_cached_translation"
  /\ last.result # None
  /\ last.row = Len(cache)
  /\ Returned(last).translatedContent = "Analice"
  /\ Returned(last).usageCount = 2

\* C3 (expiry).  No call returns, or changes the usage_count of, a row whose
\* expires_at is at or before the current time; a row stored with duration 0 is
\* not returned by the lookup that follows; and every row stays in the table
\* with its expires_at.
Expiry ==
  [][CallStep =>
       (/\ \A i \in DOMAIN cache :
             /\ i \in DOMAIN cache'
             /\ cache'[i].expires_at = cache[i].expires_at
             /\ cache'[i].usage_count # cache[i].usage_count => cache[i].expires_at > now
        /\ (last'.op = "get_cached_translation" /\ last'.result # None)
             => (/\ last'.row \in DOMAIN cache
                 /\ cache[last'.row].expires_at > now)
        /\ (/\ last.op = "cache_translation"
            /\ last.args.cache_duration_hours = 0
            /\ last'.op = "get_cached_translation"
            /\ last'.result # None)
             => last'.row # Len(cache))]_vars

\* A lookup missed although a row of its key, source and target is in the table:
\* the row has expired (the clock has reached its expires_at).
ExpiryWitness ==
  /\ last.op = "get_cached_translation"
  /\ last.result = None
  /\ \E i \in DOMAIN cache :
       /\ cache[i].original_content = last.args.content
       /\ cache[i].source_language = last.args.source_language
       /\ cache[i].target_language = last.args.target_language
       /\ cache[i].expires_at <= now

\* C4 (idempotent translation with the cache).  Of two translate_content calls
\* in succession with use_cache = true and the same arguments, the second made
\* before the entry of the first ends, both return the same translatedContent
\* and the second reports cached = true.
IdempotentTranslateCached ==
  [][(/\ CallStep
      /\ last.op = "translate_content"
      /\ last.args.use_cache
      /\ last'.op = "translate_content"
      /\ last'.args = last.args
      /\ cache[last.row].expires_at > now)
     => (/\ Returned(last').translatedContent = Returned(last).translatedContent
         /\ Returned(last').cached = TRUE)]_vars

\* C5 (no-cache path).  A translate_content call with use_cache = false leaves
\* the table as it was, makes no query and reports cached = false; a lookup of
\* the same key right after it hits only on a live row that was in the table.
NoCachePath ==
  [][CallStep =>
       (/\ (last'.op = "translate_content" /\ ~last'.args.use_cache)
             => (/\ cache' = cache
                 /\ last'.queries = 0
                 /\ last'.raised = None
                 /\ Returned(last').cached = FALSE)
        /\ (/\ last.op = "translate_content"
            /\ ~last.args.use_cache
            /\ last'.op = "get_cached_translation"
            /\ SameKey(last'.args, last.args)
            /\ last'.result # None)
             => last'.row \in LiveFor(cache, last.args, now))]_vars

\* A call without the cache has returned while the table holds no row of its key.
NoCachePathWitness ==
  /\ last.op = "translate_content"
  /\ ~last.args.use_cache
  /\ last.backend = 1
  /\ cache # << >>
  /\ \A i \in DOMAIN cache : cache[i].original_content # last.args.content

\* C10 (a hit avoids the backend).  A translate_content call with use_cache =
\* true made while a live entry of its key exists does not call the backend and
\* inserts no row: the table changes in the usage_count of one live row of the
\* key, which grows by 1, and that row is the entry returned.
HitAvoidsBackend ==
  [][(/\ CallStep
      /\ last'.op = "translate_content"
      /\ last'.args.use_cache
      /\ LiveFor(cache, last'.args, now) # {})
     => (/\ last'.backend = 0
         /\ Len(cache') = Len(cache)
         /\ last'.result # None
         /\ last'.row \in LiveFor(cache, last'.args, now)
         /\ \A i \in DOMAIN cache :
              cache'[i] = IF i = last'.row
                          THEN [cache[i] EXCEPT !.usage_count = cache[i].usage_count + 1]
                          ELSE cache[i])]_vars

\* A translation was served from a row another call had stored, without the backend.
HitAvoidsBackendWitness ==
  /\ last.op = "translate_content"
  /\ last.args.use_cache
  /\ last.backend = 0
  /\ last.row \in DOMAIN cache
  /\ cache[last.row].usage_count >= 2
  /\ cache[last.row].translated_content = "Analice"

\* C15 (the life of a cache entry).  Whatever get_cached_translation,
\* cache_translation and translate_content calls are made and however time
\* passes, every row stays in the table at its place, with every field but
\* usage_count as it was created (expires_at among them); its usage_count never
\* decreases, and is at least 1 in every row.
EntryLifecycle ==
  [][/\ \A i \in DOMAIN cache :
          /\ i \in DOMAIN cache'
          /\ [cache'[i] EXCEPT !.usage_count = cache[i].usage_count] = cache[i]
          /\ cache'[i].expires_at = cache[i].expires_at
          /\ cache'[i].usage_count >= cache[i].usage_count
     /\ \A i \in DOMAIN cache' : cache'[i].usage_count >= 1]_vars

\* The table holds a row that has expired and a row that hits have counted up.
EntryLifecycleWitness ==
  /\ Len(cache) = 2
  /\ \E i \in DOMAIN cache : cache[i].expires_at <= now
  /\ \E i \in DOMAIN cache : cache[i].usage_count = MaxUsage
  /\ last.op = "translate_content"

\* C16 (the miss path with the cache).  A translate_content call with use_cache =
\* true made while no live entry of (content, source, target) exists invokes the
\* backend once and appends one row: its original_content is the content asked
\* for, its language pair the pair asked for, its translated_content and
\* confidence_score what the backend produced ("Analizar" for "Analyze",
\* "[ES] Unseen phrase" for "Unseen phrase", 0.85); the result returned carries
\* the same translation and confidence.
MissPath ==
  [][(/\ CallStep
      /\ last'.op = "translate_content"
      /\ last'.args.use_cache
      /\ LiveFor(cache, last'.args, now) = {})
     => (/\ last'.backend = 1
         /\ last'.raised = None
         /\ Len(cache') = Len(cache) + 1
         /\ \A i \in DOMAIN cache : cache'[i] = cache[i]
         /\ last'.row = Len(cache')
         /\ LET new == cache'[Len(cache')]
            IN /\ new.original_content = last'.args.content
               /\ new.source_language = last'.args.source_language
               /\ new.target_language = last'.args.target_language
               /\ new.translated_content =
                    (IF last'.args.content = "Analyze" THEN "Analizar"
                     ELSE "[ES] " \o last'.args.content)
               /\ new.confidence_score = 85
               /\ Returned(last').translatedContent = new.translated_content
               /\ Returned(last').confidenceScore = new.confidence_score)]_vars

\* A translation missed beside an expired row of its key, and stored its own.
MissPathWitness ==
  /\ last.op = "translate_content"
  /\ last.args.use_cache
  /\ last.backend = 1
  /\ last.row = 2
  /\ Len(cache) = 2
  /\ cache[1].original_content = last.args.content
  /\ cache[1].expires_at <= now
  /\ cache[2].translated_content = "[ES] Unseen phrase"

\* The most recently created row among the given ones: the highest primary key.
Newest(selected) == CHOOSE i \in selected : \A j \in selected : j <= i

\* C13 (the authoritative entry among duplicates).  A get_cached_translation made
\* while several live rows share its key returns the most recently created of
\* them and increments that row's usage_count, leaving the older ones as they were.
AuthoritativeEntry ==
  [][(/\ CallStep
      /\ last'.op = "get_cached_translation"
      /\ Cardinality(LiveFor(cache, last'.args, now)) > 1)
     => (/\ last'.row = Newest(LiveFor(cache, last'.args, now))
         /\ \A i \in DOMAIN cache :
              cache'[i].usage_count =
                cache[i].usage_count
                  + (IF i = Newest(LiveFor(cache, last'.args, now)) THEN 1 ELSE 0))]_vars

(***************************************************************************)
(* cache_translation called with every duration, the default one included, *)
(* on a table that lookups and translations also use.                      *)
(***************************************************************************)
StoreContents == {"Analyze"}

\* cache_duration_hours as cache_translation binds it: the value a caller gives,
\* or the default of the parameter when the caller gives none.
StoreTTLs == GivenTTLs \cup {DefaultCacheHours}

NextStore ==
  \/ Tick
  \/ \E c \in StoreContents, t \in GivenTranslations, s \in SourceLangs, g \in TargetLangs,
        v \in GivenServices, f \in GivenScores, h \in StoreTTLs :
       cache_translation(c, t, s, g, v, f, h)
  \/ \E c \in StoreContents, s \in SourceLangs, g \in TargetLangs :
       get_cached_translation(c, s, g)
  \/ \E c \in StoreContents, g \in TargetLangs, s \in SourceLangs, x \in Contexts :
       translate_content(c, g, s, x, TRUE)

SpecStore == Init /\ [][NextStore]_vars

\* The row that a call which stored has appended.
Stored(call) ==
  IF call.op = "cache_translation"
  THEN [content |-> call.args.content, hours |-> call.args.cache_duration_hours]
  ELSE [content |-> call.args.content, hours |-> 168]

\* C11 (the store is append-only).  Every cache_translation call, the one
\* translate_content makes without a duration included, leaves the table as it
\* was with one row appended, whether or not a row of the key, live or expired,
\* was there: the new row has usage_count 1 and expires_at the time of the call
\* plus the duration given, 168 hours when none is given.
AppendOnly ==
  [][(/\ CallStep
      /\ \/ last'.op = "cache_translation"
         \/ last'.op = "translate_content" /\ last'.backend = 1)
     => (/\ Len(cache') = Len(cache) + 1
         /\ \A i \in DOMAIN cache : cache'[i] = cache[i]
         /\ cache'[Len(cache')].usage_count = 1
         /\ cache'[Len(cache')].expires_at = now + Stored(last').hours
         /\ cache'[Len(cache')].original_content = Stored(last').content
         /\ last'.row = Len(cache'))]_vars

\* A cache_translation without a duration has appended a row that ends 168 hours
\* after the call, beside a row of the same key.
AppendOnlyWitness ==
  /\ last.op = "cache_translation"
  /\ last.args.cache_duration_hours = DefaultCacheHours
  /\ Len(cache) = 2
  /\ cache[1].content_hash = cache[2].content_hash
  /\ cache[2].expires_at = now + 168
  /\ cache[2].usage_count = 1
  /\ now = 1


(***************************************************************************)
(* The backend behind translate_content, over every phrase of the table    *)
(* and every language code, recognized or not.                             *)
(***************************************************************************)
BackendContents == Phrases \cup {"Unseen phrase"}
BackendTargets == SeededLanguages \cup {"xx"}
AnyLangs == {"en", "es", "xx"}

NextBackend ==
  \/ \E c \in BackendContents, g \in BackendTargets, s \in SourceLangs, x \in Contexts :
       translate_content(c, g, s, x, FALSE)
  \/ \E c \in {"Analyze"}, g \in AnyLangs \ {"en"}, s \in AnyLangs \ {"es"},
        x \in Contexts, u \in BOOLEAN :
       translate_content(c, g, s, x, u)

SpecBackend == Init /\ [][NextBackend]_vars

\* What the latest call returned as translation and as confidence: the fields of
\* the row it stored, or of the dict it built when it stored none.
Translated(call) ==
  IF call.row = 0 THEN Returned(call).translatedContent ELSE cache[call.row].translated_content

Confidence(call) ==
  IF call.row = 0 THEN Returned(call).confidenceScore ELSE cache[call.row].confidence_score

\* C7 (reference backend).  A translation that translate_content has just
\* computed is the table's entry when the target language and the exact content
\* are in the table ("Analyze" to "es" is "Analizar"), otherwise the content
\* after the upper-cased target code in brackets and a space ("[ES] Unseen
\* phrase"); its confidence is 0.85.
ReferenceBackend ==
  (last.op = "translate_content" /\ last.backend = 1)
    => LET c == last.args.content
           g == last.args.target_language
       IN /\ (g \in {"es", "fr", "hi", "zh"} /\ c \in Phrases)
               => Translated(last) = translations[g][c]
          /\ ~(g \in {"es", "fr", "hi", "zh"} /\ c \in Phrases)
               => Translated(last) = "[" \o upper(g) \o "] " \o c
          /\ (c = "Unseen phrase" /\ g = "es") => Translated(last) = "[ES] Unseen phrase"
          /\ (c = "Analyze" /\ g = "es") => Translated(last) = "Analizar"
          /\ (c = "Analyze" /\ g = "fr") => Translated(last) = "Analyser"
          /\ (c = "Analyze" /\ g = "en") => Translated(last) = "[EN] Analyze"
          /\ Confidence(last) = 85
          /\ last.result # None
          /\ last.row = 0 => Returned(last).cached = FALSE

\* The backend fell back to the bracketed code for a phrase the table lacks.
ReferenceBackendWitness ==
  /\ last.op = "translate_content"
  /\ last.backend = 1
  /\ last.args.content = "Unseen phrase"
  /\ last.args.target_language = "es"
  /\ Translated(last) = "[ES] Unseen phrase"
  /\ Confidence(last) = 85

Unrecognized(args) ==
  args.target_language \notin SeededLanguages \/ args.source_language \notin SeededLanguages

\* C8 as stated (InvalidLanguage).  A translate_content call with a target or
\* source code that is no recognized language ends in an InvalidLanguage error,
\* returns no translation and leaves no cache row of its key.
InvalidLanguageRejected ==
  (last.op = "translate_content" /\ Unrecognized(last.args))
    => /\ last.raised = Some("InvalidLanguage")
       /\ last.result = None
       /\ LiveFor(cache, last.args, now) = {}

\* C8 as amended.  translate_content validates neither code: with a target or
\* source code that is no recognized language it raises nothing and returns a
\* translation; one it computes for an unrecognized target is the content after
\* the bracketed upper-cased code; with use_cache = true the entry returned is a
\* row of that key, a row the call has inserted when it computed the translation.
NoLanguageValidation ==
  (last.op = "translate_content" /\ Unrecognized(last.args))
    => /\ last.raised = None
       /\ last.result # None
       /\ (last.backend = 1 /\ last.args.target_language \notin SeededLanguages)
            => Translated(last) =
                 "[" \o upper(last.args.target_language) \o "] " \o last.args.content
       /\ last.args.use_cache
            => /\ last.row \in DOMAIN cache
               /\ cache[last.row].original_content = last.args.content
               /\ cache[last.row].source_language = last.args.source_language
               /\ cache[last.row].target_language = last.args.target_language
               /\ last.backend = 1 => (last.row = Len(cache) /\ cache[last.row].usage_count = 1)
       /\ ~last.args.use_cache => last.row = 0

\* A translation into the unknown code "xx" was computed and cached.
NoLanguageValidationWitness ==
  /\ last.op = "translate_content"
  /\ last.args.target_language = "xx"
  /\ last.args.use_cache
  /\ last.backend = 1
  /\ last.row = Len(cache)
  /\ cache[last.row].translated_content = "[XX] Analyze"

(***************************************************************************)
(* translate_content with a backend that fails: a target language that is  *)
(* None, for which _mock_translate raises, beside one for which it returns. *)
(***************************************************************************)
FailureTargets == {"es", NoneCode}

NextFailure ==
  \/ Tick
  \/ \E c \in Contents, g \in FailureTargets, s \in SourceLangs, x \in Contexts,
        u \in BOOLEAN :
       translate_content(c, g, s, x, u)

SpecFailure == Init /\ [][NextFailure]_vars

\* C12 (a backend failure writes nothing).  A translate_content call in which
\* the backend fails, as it does whenever the call reaches it with the target
\* None, with use_cache true or false, ends in the backend's exception, returns
\* nothing and leaves the table exactly as it was before the call; the lookup
\* the call made, if any, had missed.
BackendFailureWritesNothing ==
  [][(CallStep /\ last'.op = "translate_content")
     => (/\ (last'.args.target_language = NoneCode /\ last'.backend = 1)
              => last'.raised = Some("AttributeError")
         /\ last'.raised # None
              => (/\ cache' = cache
                  /\ last'.result = None
                  /\ last'.row = 0
                  /\ last'.backend = 1
                  /\ last'.queries = (IF last'.args.use_cache THEN 1 ELSE 0)
                  /\ LiveFor(cache, last'.args, now) = {}))]_vars

\* The backend has failed in a call with the cache, made while the table held rows.
BackendFailureWitness ==
  /\ last.op = "translate_content"
  /\ last.args.use_cache
  /\ last.raised = Some("AttributeError")
  /\ last.backend = 1
  /\ Len(cache) > 0

(***************************************************************************)
(* _generate_content_hash on two tuples (content, source, target), for the *)
(* properties that compare two keys.  Some of the strings hold the         *)
(* separator.                                                              *)
(***************************************************************************)
HashContents == {"Analyze", "a", "a|a"}
HashLangs == {"en", "es", "a", "a|a"}
SeparatorFree == {"en", "es", "a"}     \* the codes of HashLangs without "|"

hash_twice(a, b) ==
  /\ last = NoCall
  /\ last' = [op |-> "_generate_content_hash",
              args |-> <<a, b>>,
              result |-> Some(<<_generate_content_hash(a.content, a.source_language,
                                                       a.target_language),
                                _generate_content_hash(b.content, b.source_language,
                                                       b.target_language)>>),
              row |-> 0, raised |-> None, backend |-> 0, queries |-> 0]
  /\ UNCHANGED <<cache, prefs, now, thr, hits, store, sessions>>

NextHash ==
  \E c1 \in HashContents, s1 \in HashLangs, g1 \in HashLangs,
     c2 \in HashContents, s2 \in HashLangs, g2 \in HashLangs :
    hash_twice(KeyArgs(c1, s1, g1, TRUE), KeyArgs(c2, s2, g2, TRUE))

SpecHash == Init /\ [][NextHash]_vars

\* The number of components in which two tuples differ.
Differences(a, b) ==
  Cardinality({f \in {"content", "source_language", "target_language"} : a[f] # b[f]})

Swapped(a, b) ==
  /\ a.content = b.content
  /\ a.source_language = b.target_language
  /\ a.target_language = b.source_language
  /\ a.source_language # a.target_language

\* C6 as stated (key derivation).  Equal tuples have equal keys; tuples that
\* differ in exactly one component have different keys; and a tuple and the one
\* with source and target swapped, when these differ, have different keys.
KeyDerivation ==
  last.op = "_generate_content_hash"
    => LET a == last.args[1]
           b == last.args[2]
           ka == Returned(last)[1]
           kb == Returned(last)[2]
       IN /\ a = b => ka = kb
          /\ Differences(a, b) = 1 => ka # kb
          /\ Swapped(a, b) => ka # kb

\* C6 as amended.  Equal tuples have equal keys; tuples that differ in exactly
\* one component have different keys; and a tuple and the one with source and
\* target swapped, when these differ and neither holds the separator "|", have
\* different keys.
KeyDerivationSeparatorFree ==
  last.op = "_generate_content_hash"
    => LET a == last.args[1]
           b == last.args[2]
           ka == Returned(last)[1]
           kb == Returned(last)[2]
       IN /\ a = b => ka = kb
          /\ Differences(a, b) = 1 => ka # kb
          /\ (/\ Swapped(a, b)
              /\ a.source_language \in SeparatorFree
              /\ a.target_language \in SeparatorFree) => ka # kb

\* The keys of ("Analyze", "en", "es") and of its swap have been derived.
KeyDerivationWitness ==
  /\ last.op = "_generate_content_hash"
  /\ last.args[1] = KeyArgs("Analyze", "en", "es", TRUE)
  /\ last.args[2] = KeyArgs("Analyze", "es", "en", TRUE)
  /\ Returned(last)[1] = sha256("Analyze|en|es")
  /\ Returned(last)[2] = sha256("Analyze|es|en")

(***************************************************************************)
(* The cache over contents and language codes that hold the separator, so  *)
(* that different tuples have the same hash: ("a|a", "a", "a") and          *)
(* ("a", "a|a", "a") both hash "a|a|a|a".                                   *)
(***************************************************************************)
TupleContents == {"a", "a|a"}
TupleSources == {"a", "a|a"}
TupleTargets == {"a"}
TupleTTLs == {1}

NextTuples ==
  \/ Tick
  \/ \E c \in TupleContents, t \in GivenTranslations, s \in TupleSources, g \in TupleTargets,
        v \in GivenServices, f \in GivenScores, h \in TupleTTLs :
       cache_translation(c, t, s, g, v, f, h)
  \/ \E c \in TupleContents, s \in TupleSources, g \in TupleTargets :
       get_cached_translation(c, s, g)

SpecTuples == Init /\ [][NextTuples]_vars

\* C17 (no hit across tuples).  A row that get_cached_translation(c, s, g)
\* returns was stored for exactly the content c, the source s and the target g,
\* also when another tuple's row has the same content_hash.
NoCrossTupleHit ==
  [][(/\ CallStep
      /\ last'.op = "get_cached_translation"
      /\ last'.result # None)
     => (/\ last'.row \in DOMAIN cache
         /\ cache[last'.row].original_content = last'.args.content
         /\ cache[last'.row].source_language = last'.args.source_language
         /\ cache[last'.row].target_language = last'.args.target_language)]_vars

\* A lookup has missed although a live row of another tuple has the hash of its key.
NoCrossTupleHitWitness ==
  /\ last.op = "get_cached_translation"
  /\ last.result = None
  /\ \E i \in DOMAIN cache :
       /\ cache[i].content_hash = _generate_content_hash(last.args.content,
                                                         last.args.source_language,
                                                         last.args.target_language)
       /\ cache[i].original_content # last.args.content
       /\ cache[i].expires_at > now

(***************************************************************************)
(* Concurrent requests.  Each request has its own database session, and    *)
(* get_cached_translation is two statements in it: the SELECT that loads   *)
(* the row into the session, and the UPDATE that commit() sends, which     *)
(* writes the usage_count computed in Python from the value loaded.  Other *)
(* requests run between the two.                                           *)
(***************************************************************************)
Threads == 1..NThreads

InFlight == Cardinality({t \in Threads : thr[t].pc # "idle"})

\* cached = self.db.query(...).filter(...).first()
get_cached_query(t, content, source_language, target_language) ==
  /\ thr[t].pc = "idle"
  /\ BagCardinality(hits) + InFlight < MaxCalls
  /\ LET content_hash == _generate_content_hash(content, source_language, target_language)
         selected == CacheQuery(cache, content_hash, source_language, target_language, now)
     IN \E i \in first(selected) :
          /\ i # 0
          /\ cache[i].usage_count < MaxUsage
          /\ thr' = [thr EXCEPT ![t] = [pc |-> "loaded", id |-> i,
                                        usage_count |-> cache[i].usage_count,
                                        args |-> KeyArgs(content, source_language,
                                                         target_language, TRUE)]]
  /\ UNCHANGED <<cache, prefs, now, last, hits, store, sessions>>

\* cached.usage_count += 1; self.db.commit(); return cached.to_dict()
get_cached_commit(t) ==
  /\ thr[t].pc = "loaded"
  /\ cache' = [cache EXCEPT ![thr[t].id].usage_count = thr[t].usage_count + 1]
  /\ hits' = hits (+) SetToBag({thr[t].id})
  /\ thr' = [thr EXCEPT ![t] = Idle]
  /\ UNCHANGED <<prefs, now, last, store, sessions>>

NextConc ==
  \/ Tick
  \/ \E c \in Contents, t \in GivenTranslations, s \in SourceLangs, g \in TargetLangs,
        v \in GivenServices, f \in GivenScores, h \in GivenTTLs :
       cache_translation(c, t, s, g, v, f, h)
  \/ \E t \in Threads, c \in Contents, s \in SourceLangs, g \in TargetLangs :
       get_cached_query(t, c, s, g)
  \/ \E t \in Threads : get_cached_commit(t)

SpecConc == Init /\ [][NextConc]_vars

\* C1 (no lost increment).  When the concurrent get_cached_translation calls
\* have all completed, the usage_count of every row is the 1 it was created with
\* plus the number of calls that returned the row.
NoLostIncrement ==
  (\A t \in Threads : thr[t].pc = "idle")
    => \A i \in DOMAIN cache : cache[i].usage_count = 1 + CopiesIn(i, hits)

(***************************************************************************)
(* Concurrent translate_content calls with use_cache = true.  The call is  *)
(* the SELECT of get_cached_translation, then on a hit the UPDATE of its    *)
(* commit, and on a miss the backend call and the INSERT of                 *)
(* cache_translation; no lock is held from the SELECT to the INSERT.        *)
(***************************************************************************)
Missed == Cardinality({t \in Threads : thr[t].pc = "missed"})

\* if use_cache: cached = self.get_cached_translation(...), up to the query
translate_begin(t, content, target_language, source_language) ==
  /\ thr[t].pc = "idle"
  /\ BagCardinality(hits) + InFlight < MaxCalls
  /\ LET content_hash == _generate_content_hash(content, source_language, target_language)
         selected == CacheQuery(cache, content_hash, source_language, target_language, now)
     IN \E i \in first(selected) :
          IF i = 0
          THEN /\ Len(cache) + Missed < MaxRows
               /\ thr' = [thr EXCEPT ![t] = [pc |-> "missed", id |-> 0, usage_count |-> 0,
                                             args |-> KeyArgs(content, source_language,
                                                              target_language, TRUE)]]
          ELSE /\ cache[i].usage_count < MaxUsage
               /\ thr' = [thr EXCEPT ![t] = [pc |-> "loaded", id |-> i,
                                             usage_count |-> cache[i].usage_count,
                                             args |-> KeyArgs(content, source_language,
                                                              target_language, TRUE)]]
  /\ UNCHANGED <<cache, prefs, now, last, hits, store, sessions>>

\* translated_content = self._mock_translate(...); result = self.cache_translation(...)
translate_store(t) ==
  /\ thr[t].pc = "missed"
  /\ LET a == thr[t].args
         translated_content == _mock_translate(a.content, a.source_language,
                                               a.target_language, "general")
     IN cache' = cache_translation_outcome(cache, a.content, translated_content,
                                           a.source_language, a.target_language, "openai",
                                           MockConfidence, DefaultCacheHours, now).rows
  /\ thr' = [thr EXCEPT ![t] = Idle]
  /\ UNCHANGED <<prefs, now, last, hits, store, sessions>>

NextRace ==
  \/ Tick
  \/ \E t \in Threads, c \in Contents, g \in TargetLangs, s \in SourceLangs :
       translate_begin(t, c, g, s)
  \/ \E t \in Threads : get_cached_commit(t)
  \/ \E t \in Threads : translate_store(t)

SpecRace == Init /\ [][NextRace]_vars

\* C14 (racing misses duplicate).  No call misses while a live row of its key
\* is in the table at its lookup, and a call that begins when no other call is
\* in flight and a live row of its key exists hits it and inserts nothing; so of
\* two calls for one key made one after the other, the second before the entry
\* ends, only the first inserts.  Every call that missed invokes the backend and
\* inserts exactly one row of its key, whatever other calls inserted since its
\* lookup -- which is how two overlapping calls leave two live rows of one key
\* (RacingMisses).
RacingMissesDuplicate ==
  [][\A t \in Threads :
       /\ (thr[t].pc = "idle" /\ thr'[t].pc = "missed")
            => LiveFor(cache, thr'[t].args, now) = {}
       /\ (/\ thr[t].pc = "idle" /\ thr'[t].pc # "idle"
           /\ InFlight = 0
           /\ LiveFor(cache, thr'[t].args, now) # {})
            => (thr'[t].pc = "loaded" /\ cache' = cache)
       /\ (thr[t].pc = "loaded" /\ thr'[t].pc = "idle") => Len(cache') = Len(cache)
       /\ (thr[t].pc = "missed" /\ thr'[t].pc = "idle")
            => (/\ Len(cache') = Len(cache) + 1
                /\ \A i \in DOMAIN cache : cache'[i] = cache[i]
                /\ Len(cache') \in LiveFor(cache', thr[t].args, now)
                /\ cache'[Len(cache')].translated_content =
                     _mock_translate(thr[t].args.content, thr[t].args.source_language,
                                     thr[t].args.target_language, "general"))]_vars

\* Two calls for one key have both missed and both inserted: two live rows of the key.
RacingMisses ==
  /\ \A t \in Threads : thr[t].pc = "idle"
  /\ Len(cache) = 2
  /\ cache[1].content_hash = cache[2].content_hash
  /\ cache[1].source_language = cache[2].source_language
  /\ cache[1].target_language = cache[2].target_language
  /\ cache[1].expires_at > now
  /\ cache[2].expires_at > now
  /\ cache[1].usage_count = 1
  /\ cache[2].usage_count = 1

(***************************************************************************)
(* LanguageService: the language preferences.                              *)
(***************************************************************************)
PrefLanguages == {"en", "es", "xx", "de"}
UserIds == {None, Some("u1"), Some("u2")}
SessionIds == {None, Some("s1")}
PreferenceSources == {"user_selection"}

\* A nullable column holds None (NULL) or Some(string), as the argument does.

\* A code whose Language row has enabled = False: seed_languages inserts the
\* codes the table lacks and leaves every other row as it finds it.
DisabledLanguages == {"de"}

\* The enabled column of the Language table, by code.
LanguageTable ==
  [code \in SeededLanguages \cup DisabledLanguages |-> code \in SeededLanguages]

language_always_available(language_code) == TRUE

\* Whether the query for the Language row with this code and enabled = True finds one.
LanguageAvailable(language_code) ==
  language_code \in DOMAIN LanguageTable /\ LanguageTable[language_code]

\* UserLanguagePreference.to_dict()
preference_to_dict(row) ==
  [userId |-> row.user_id, sessionId |-> row.session_id,
   languageCode |-> row.language_code, preferenceSource |-> row.preference_source,
   isActive |-> row.is_active]

\* A set that deactivates no row.
deactivates_nothing(rows, user_id, session_id) == {}

\* The rows that the "deactivate existing preferences" UPDATE of
\* set_user_language_preference matches.
Deactivated(rows, user_id, session_id) ==
  IF Truthy(user_id)
  THEN {i \in DOMAIN rows : rows[i].user_id = user_id /\ rows[i].is_active}
  ELSE IF Truthy(session_id)
       THEN {i \in DOMAIN rows : rows[i].session_id = session_id /\ rows[i].is_active}
       ELSE {}

set_user_language_preference(language_code, user_id, session_id, source) ==
  /\ IF ~LanguageAvailable(language_code)
     THEN /\ prefs' = prefs
          /\ last' = [op |-> "set_user_language_preference",
                      args |-> [language_code |-> language_code, user_id |-> user_id,
                                session_id |-> session_id],
                      result |-> None, row |-> 0, raised |-> Some("ValueError"),
                      backend |-> 0, queries |-> 1]
     ELSE /\ Len(prefs) < MaxPrefs
          /\ LET off == Deactivated(prefs, user_id, session_id)
                 preference == [user_id |-> user_id,
                                session_id |-> session_id,
                                language_code |-> language_code,
                                preference_source |-> source,
                                is_active |-> TRUE]
             IN /\ prefs' = Append([i \in DOMAIN prefs |->
                                      IF i \in off
                                      THEN [prefs[i] EXCEPT !.is_active = FALSE]
                                      ELSE prefs[i]],
                                   preference)
                /\ last' = [op |-> "set_user_language_preference",
                            args |-> [language_code |-> language_code, user_id |-> user_id,
                                      session_id |-> session_id],
                            result |-> Some(preference_to_dict(preference)),
                            row |-> Len(prefs) + 1, raised |-> None,
                            backend |-> 0, queries |-> 1]
  /\ UNCHANGED <<cache, now, thr, hits, store, sessions>>

\* The rows get_user_language_preference's query selects.
ActiveFor(rows, user_id, session_id) ==
  IF Truthy(user_id)
  THEN {i \in DOMAIN rows : rows[i].is_active /\ rows[i].user_id = user_id}
  ELSE IF Truthy(session_id)
       THEN {i \in DOMAIN rows : rows[i].is_active /\ rows[i].session_id = session_id}
       ELSE {}

get_user_language_preference(user_id, session_id) ==
  /\ \E i \in first(ActiveFor(prefs, user_id, session_id)) :
       last' = [op |-> "get_user_language_preference",
                args |-> [user_id |-> user_id, session_id |-> session_id],
                result |-> IF i = 0 THEN None ELSE Some(preference_to_dict(prefs[i])),
                row |-> i, raised |-> None, backend |-> 0,
                queries |-> IF Truthy(user_id) \/ Truthy(session_id) THEN 1 ELSE 0]
  /\ UNCHANGED <<cache, prefs, now, thr, hits, store, sessions>>

NextPrefs ==
  \/ \E l \in PrefLanguages, u \in UserIds, n \in SessionIds, r \in PreferenceSources :
       set_user_language_preference(l, u, n, r)
  \/ \E u \in UserIds, n \in SessionIds : get_user_language_preference(u, n)

SpecPrefs == Init /\ [][NextPrefs]_vars

\* C9 (single active preference).  At most one row with is_active is held for
\* each user_id and at most one for each session_id.
SingleActivePreference ==
  \A i, j \in DOMAIN prefs :
    (i # j /\ prefs[i].is_active /\ prefs[j].is_active)
      => /\ ~(prefs[i].user_id # None /\ prefs[i].user_id = prefs[j].user_id)
         /\ ~(prefs[i].session_id # None /\ prefs[i].session_id = prefs[j].session_id)

\* The rows that the successful sets naming this user, or this session, have inserted.
SetsForUser(user_id) == {i \in DOMAIN prefs : prefs[i].user_id = user_id}

SetsForSession(session_id) == {i \in DOMAIN prefs : prefs[i].session_id = session_id}

\* C18 (a preference set is the preference read).  When the latest successful
\* set naming user u was set_user_language_preference(L, user_id=u), a
\* get_user_language_preference(user_id=u) returns the row that set inserted,
\* with language L, whatever was set for u before and whatever is set for others
\* since.  When the latest successful set naming session s was
\* set_user_language_preference(L, session_id=s) with no user_id, a get with
\* session_id=s and no user_id returns that set's row.  A get with neither id
\* returns None without a query.
ReadYourWrite ==
  last.op = "get_user_language_preference"
    => LET u == last.args.user_id
           n == last.args.session_id
       IN /\ (Truthy(u) /\ SetsForUser(u) # {} /\ prefs[Newest(SetsForUser(u))].session_id = None)
               => (/\ last.row = Newest(SetsForUser(u))
                   /\ last.result # None
                   /\ Returned(last).languageCode = prefs[last.row].language_code
                   /\ prefs[last.row].is_active)
          /\ (/\ ~Truthy(u) /\ Truthy(n) /\ SetsForSession(n) # {}
              /\ prefs[Newest(SetsForSession(n))].user_id = None)
               => (/\ last.row = Newest(SetsForSession(n))
                   /\ last.result # None
                   /\ Returned(last).languageCode = prefs[last.row].language_code
                   /\ prefs[last.row].is_active)
          /\ (~Truthy(u) /\ ~Truthy(n)) => (last.result = None /\ last.queries = 0)

\* The preference read for a user is the one set last, after a different earlier
\* one and a set for another user since.
ReadYourWriteWitness ==
  /\ last.op = "get_user_language_preference"
  /\ last.args.user_id = Some("u1")
  /\ last.row = 2
  /\ Len(prefs) = 3
  /\ prefs[1].user_id = Some("u1")
  /\ prefs[1].language_code = "en"
  /\ prefs[2].user_id = Some("u1")
  /\ prefs[2].session_id = None
  /\ prefs[2].language_code = "es"
  /\ prefs[3].user_id # Some("u1")
  /\ Returned(last).languageCode = "es"

\* C20 (a rejected preference changes nothing).  A set_user_language_preference
\* call with a code that has no Language row ("xx") or whose row is not enabled
\* ("de") ends in ValueError, returns nothing and leaves every preference row as
\* it was, the active ones active.
RejectedPreference ==
  [][(/\ CallStep
      /\ last'.op = "set_user_language_preference"
      /\ last'.args.language_code \notin {"en", "es", "fr", "hi", "zh"})
     => (/\ last'.raised = Some("ValueError")
         /\ last'.result = None
         /\ prefs' = prefs)]_vars

\* A set with the disabled code was rejected while the user had an active preference.
RejectedPreferenceWitness ==
  /\ last.op = "set_user_language_preference"
  /\ last.args.language_code = "de"
  /\ last.raised = Some("ValueError")
  /\ last.args.user_id # None
  /\ \E i \in DOMAIN prefs : prefs[i].is_active /\ prefs[i].user_id = last.args.user_id

(***************************************************************************)
(* LanguageService: the UI translations.  seed_translations fills the      *)
(* Translation table; of its rows the model keeps two keys in every        *)
(* language, the values written as the mock backend's are.                 *)
(***************************************************************************)
translations_data ==
  <<[key |-> "ui.title", language_code |-> "en", value |-> "Advanced Leaf Disease Analyzer", namespace |-> "ui"],
    [key |-> "disease.healthy.name", language_code |-> "en", value |-> "Healthy", namespace |-> "disease"],
    [key |-> "ui.title", language_code |-> "es", value |-> "Analizador Avanzado de Enfermedades de Hojas", namespace |-> "ui"],
    [key |-> "disease.healthy.name", language_code |-> "es", value |-> "Saludable", namespace |-> "disease"],
    [key |-> "ui.title", language_code |-> "fr", value |-> "Analyseur Avance de Maladies des Feuilles", namespace |-> "ui"],
    [key |-> "disease.healthy.name", language_code |-> "fr", value |-> "Sain", namespace |-> "disease"],
    [key |-> "ui.title", language_code |-> "hi", value |-> "hi<ui.title>", namespace |-> "ui"],
    [key |-> "disease.healthy.name", language_code |-> "hi", value |-> "hi<disease.healthy.name>", namespace |-> "disease"],
    [key |-> "ui.title", language_code |-> "zh", value |-> "zh<ui.title>", namespace |-> "ui"],
    [key |-> "disease.healthy.name", language_code |-> "zh", value |-> "zh<disease.healthy.name>", namespace |-> "disease"]>>

\* The rows with this key and language_code.
TranslationQuery(rows, key, language_code) ==
  {i \in DOMAIN rows : rows[i].key = key /\ rows[i].language_code = language_code}

\* The loop of seed_translations from entry k on: an entry is added when the
\* table has no row of its key and language.
RECURSIVE SeedFrom(_, _)
SeedFrom(rows, k) ==
  IF k > Len(translations_data) THEN rows
  ELSE LET trans_data == translations_data[k]
           existing == TranslationQuery(rows, trans_data.key, trans_data.language_code)
       IN SeedFrom(IF existing = {} THEN Append(rows, trans_data) ELSE rows, k + 1)

seed_translations ==
  /\ store' = SeedFrom(store, 1)
  /\ last' = [op |-> "seed_translations", args |-> << >>, result |-> None, row |-> 0,
              raised |-> None, backend |-> 0, queries |-> Len(translations_data)]
  /\ UNCHANGED <<cache, prefs, now, thr, hits, sessions>>

LookupKeys == {"ui.title", "disease.healthy.name", "ui.missing", ""}
LookupLanguages == {"en", "es", "fr", "hi", "zh", "de"}
Fallbacks == {None, Some(""), Some("Title")}

\* A lookup that goes from the language asked for straight to the final fallback.
without_english_fallback(rows, key, language_code, fallback) ==
  LET found == first(TranslationQuery(rows, key, language_code))
  IN {IF translation # 0 THEN rows[translation].value
      ELSE IF Truthy(fallback) THEN fallback[1] ELSE key : translation \in found}

\* What get_translation may return: the value of the row for the language, else
\* for a language other than "en" the value of the row for "en", else
\* fallback or key.
get_translation_values(rows, key, language_code, fallback) ==
  LET found == first(TranslationQuery(rows, key, language_code))
      english == first(TranslationQuery(rows, key, "en"))
  IN {IF translation # 0 THEN rows[translation].value
      ELSE IF language_code # "en" /\ english_translation # 0
           THEN rows[english_translation].value
           ELSE IF Truthy(fallback) THEN fallback[1] ELSE key :
        translation \in found, english_translation \in english}

get_translation(key, language_code, fallback) ==
  /\ \E value \in get_translation_values(store, key, language_code, fallback) :
       last' = [op |-> "get_translation",
                args |-> [key |-> key, language_code |-> language_code, fallback |-> fallback],
                result |-> Some(value), row |-> 0, raised |-> None, backend |-> 0,
                queries |-> 1]
  /\ UNCHANGED <<cache, prefs, now, thr, hits, store, sessions>>

NextLookup ==
  \/ seed_translations
  \/ \E k \in LookupKeys, l \in LookupLanguages, f \in Fallbacks : get_translation(k, l, f)

SpecLookup == Init /\ [][NextLookup]_vars

\* The values stored for a key in a language.
StoredValues(key, language_code) ==
  {store[i].value : i \in TranslationQuery(store, key, language_code)}

\* C19 (the fallback chain of a translation lookup).  get_translation(key, lang,
\* fallback) returns the value stored for (key, lang) when there is one;
\* otherwise, when lang is not "en" and a value for (key, "en") is stored, that
\* value; otherwise fallback when it is given and not empty, and key in every
\* other case; and it leaves the Translation table as it was.
FallbackChain ==
  [][(CallStep /\ last'.op = "get_translation")
     => LET key == last'.args.key
            lang == last'.args.language_code
            fallback == last'.args.fallback
            value == Returned(last')
        IN /\ store' = store
           /\ StoredValues(key, lang) # {} => value \in StoredValues(key, lang)
           /\ (StoredValues(key, lang) = {} /\ lang # "en" /\ StoredValues(key, "en") # {})
                => value \in StoredValues(key, "en")
           /\ (StoredValues(key, lang) = {} /\ (lang = "en" \/ StoredValues(key, "en") = {}))
                => value = (IF fallback # None /\ fallback # Some("") THEN fallback[1] ELSE key)
           /\ (key = "ui.title" /\ lang = "de" /\ store # << >>)
                => value = "Advanced Leaf Disease Analyzer"]_vars

\* A lookup in a language without rows has returned the English value of the key.
FallbackChainWitness ==
  /\ last.op = "get_translation"
  /\ last.args.language_code = "de"
  /\ last.args.key = "disease.healthy.name"
  /\ last.args.fallback = Some("Title")
  /\ Returned(last) = "Healthy"

(***************************************************************************)
(* LanguageService: the translation sessions kept for analytics, calls     *)
(* made one at a time.                                                     *)
(***************************************************************************)
AnalyticsSessionIds == {"s1", "s2"}
SessionLanguages == {"es"}

\* The columns that TranslationSession(session_id = ..., language_code = ...)
\* leaves to the model's defaults, at the time the row is inserted (started_at,
\* which nothing here reads or writes, is left out).
session_defaults(at) ==
  [last_activity_at |-> at, ended_at |-> None,
   page_views |-> 0, ai_translations_requested |-> 0]

\* TranslationSession.to_dict()
session_to_dict(row) ==
  [sessionId |-> row.session_id, languageCode |-> row.language_code,
   lastActivityAt |-> row.last_activity_at,
   endedAt |-> row.ended_at, pageViews |-> row.page_views,
   aiTranslationsRequested |-> row.ai_translations_requested]

\* The rows with this session_id whose ended_at is NULL.
OpenSessions(rows, session_id) ==
  {i \in DOMAIN rows : rows[i].session_id = session_id /\ rows[i].ended_at = None}

\* The activity counted in a session.
Activity(row) == row.page_views + row.ai_translations_requested

\* A start that leaves the open session open.
ends_nothing(rows, i, at) == rows

\* existing_session.ended_at = datetime.utcnow()
EndSession(rows, i, at) == [rows EXCEPT ![i].ended_at = Some(at)]

start_translation_session(session_id, language_code) ==
  /\ Len(sessions) < MaxSessions
  /\ \E existing_session \in first(OpenSessions(sessions, session_id)) :
       LET ended == IF existing_session # 0
                    THEN EndSession(sessions, existing_session, now)
                    ELSE sessions
           session == [session_id |-> session_id, language_code |-> language_code]
                        @@ session_defaults(now)
       IN /\ sessions' = Append(ended, session)
          /\ last' = [op |-> "start_translation_session",
                      args |-> [session_id |-> session_id, language_code |-> language_code],
                      result |-> Some(session_to_dict(session)),
                      row |-> Len(sessions) + 1, raised |-> None, backend |-> 0,
                      queries |-> 1]
  /\ UNCHANGED <<cache, prefs, now, thr, hits, store>>

update_session_activity(session_id, page_view, ai_translation) ==
  /\ \E session \in first(OpenSessions(sessions, session_id)) :
       /\ IF session # 0
          THEN /\ (page_view \/ ai_translation)
                    => Activity(sessions[session]) + (IF page_view /\ ai_translation THEN 2 ELSE 1)
                         <= MaxActivity
               /\ sessions' =
                    [sessions EXCEPT
                       ![session].last_activity_at = now,
                       ![session].page_views = IF page_view THEN @ + 1 ELSE @,
                       ![session].ai_translations_requested =
                          IF ai_translation THEN @ + 1 ELSE @]
          ELSE sessions' = sessions
       /\ last' = [op |-> "update_session_activity",
                   args |-> [session_id |-> session_id, page_view |-> page_view,
                             ai_translation |-> ai_translation],
                   result |-> None, row |-> session, raised |-> None, backend |-> 0,
                   queries |-> 1]
  /\ UNCHANGED <<cache, prefs, now, thr, hits, store>>

NextSessions ==
  \/ Tick
  \/ \E n \in AnalyticsSessionIds, l \in SessionLanguages : start_translation_session(n, l)
  \/ \E n \in AnalyticsSessionIds, p \in BOOLEAN, a \in BOOLEAN :
       update_session_activity(n, p, a)

SpecSessions == Init /\ [][NextSessions]_vars

\* C21 (one open translation session).  With the table empty at the start and
\* start_translation_session and update_session_activity called one at a time,
\* every session_id has at most one row whose ended_at is unset; a row whose
\* ended_at is set is never changed again, so it is neither reopened nor
\* updated; and an update_session_activity for a session_id without an open
\* row changes no row.
OneOpenSession ==
  [][/\ \A n \in AnalyticsSessionIds :
          /\ Cardinality(OpenSessions(sessions, n)) <= 1
          /\ Cardinality(OpenSessions(sessions', n)) <= 1
     /\ \A i \in DOMAIN sessions :
          /\ i \in DOMAIN sessions'
          /\ sessions[i].ended_at # None => sessions'[i] = sessions[i]
     /\ (/\ CallStep
         /\ last'.op = "update_session_activity"
         /\ OpenSessions(sessions, last'.args.session_id) = {})
          => sessions' = sessions
     /\ (CallStep /\ last'.op = "start_translation_session")
          => (/\ Len(sessions') = Len(sessions) + 1
              /\ OpenSessions(sessions', last'.args.session_id) = {Len(sessions')})]_vars

\* An update for a session_id never started has gone by, beside a session that
\* was ended by the start of its successor and updates of the open one.
OneOpenSessionWitness ==
  /\ last.op = "update_session_activity"
  /\ last.args.session_id = "s2"
  /\ last.args.page_view
  /\ last.row = 0
  /\ Len(sessions) = 2
  /\ sessions[1].session_id = "s1"
  /\ sessions[1].ended_at = Some(1)
  /\ sessions[2].session_id = "s1"
  /\ sessions[2].ended_at = None
  /\ sessions[2].page_views = 1

====
